---- MODULE Spec2Model ----
(***************************************************************************)
(* Model of onnxruntime/core/framework/inline_containers.h:                *)
(*   - EstimateHashStorageSize (hash container footprint estimate)         *)
(*   - allocate_and_align (aligned carve-out of an allocator buffer)       *)
(*   - OrtDeclareAllignedStackOrAllocatedBuffer (stack-or-heap scratch)    *)
(*   - SmallBufferResource (std::pmr::monotonic_buffer_resource wrapper)   *)
(*   - DebugMemoryResource (counting decorator)                            *)
(* size_t is modelled as an unsigned integer of WordBits bits.             *)
(***************************************************************************)
EXTENDS Integers, Sequences, FiniteSets, TLC

VARIABLES
  \* EstimateHashStorageSize call
  est_pc, slot_size, num_elements, est_result,
  \* allocate_and_align call: arguments, the caller's owner `buf`, the
  \* returned pointer, how the call ended, calls made to the allocator
  aa_pc, aa_size, aa_alignment, aa_buf, aa_ret, aa_outcome, aa_alloc_calls,
  \* OrtDeclareAllignedStackOrAllocatedBuffer in one scope: the build
  \* platform, size_in_bytes, the owner on_heap_<buffer_ptr>, buffer_ptr
  sb_pc, platform, size_in_bytes, on_heap, buffer_ptr,
  \* SmallBufferResource: lifetime, the borrowed buffer, the wrapped
  \* monotonic_buffer_resource (current_buffer as next free address and
  \* bytes left, whether it still is the borrowed buffer, next_buffer_size,
  \* blocks obtained from upstream), calls made to upstream, blocks handed
  \* out and not yet passed to deallocate
  ar_pc, ar_base, ar_capacity, cur_ptr, avail, cur_is_local,
  next_buffer_size, chunks, up_alloc_calls, up_dealloc_calls, live,
  \* history: bytes of the borrowed buffer in use, allocate calls made,
  \* sum of requested sizes, the same with alignment padding, the last call
  bytes_used, ar_calls, sum_requested, sum_padded, last,
  \* DebugMemoryResource: its two counters; calls it passed to upstream_;
  \* blocks handed out; history: calls made, exact sums of the byte
  \* arguments, the counters before the last call
  total_allocated_, total_deallocated_, dbg_up_calls, dbg_live,
  dbg_calls, dbg_sum_alloc, dbg_sum_dealloc, dbg_prev

est_vars == <<est_pc, slot_size, num_elements, est_result>>

aa_vars == <<aa_pc, aa_size, aa_alignment, aa_buf, aa_ret, aa_outcome,
             aa_alloc_calls>>

sb_vars == <<sb_pc, platform, size_in_bytes, on_heap, buffer_ptr>>

ar_vars == <<ar_pc, ar_base, ar_capacity, cur_ptr, avail, cur_is_local,
             next_buffer_size, chunks, up_alloc_calls, up_dealloc_calls, live,
             bytes_used, ar_calls, sum_requested, sum_padded, last>>

dbg_vars == <<total_allocated_, total_deallocated_, dbg_up_calls, dbg_live,
              dbg_calls, dbg_sum_alloc, dbg_sum_dealloc, dbg_prev>>

vars == <<est_vars, aa_vars, sb_vars, ar_vars, dbg_vars>>

\* ------------------------------------------------------------------------
\* Values shared by the components, and each component before its first call
\* ------------------------------------------------------------------------

\* outcome of a checked size_t computation: a value, or the overflow failure
Thrown == [ok |-> FALSE, val |-> 0]
Returned(v) == [ok |-> TRUE, val |-> v]

\* nullptr
NULL == 0

\* an empty IAllocatorUniquePtr<void> / std::unique_ptr
NullBuf == [addr |-> NULL, len |-> 0]

EstIdle ==
  /\ est_pc = "idle"
  /\ est_result = Thrown

AAIdle ==
  /\ aa_pc = "idle"
  /\ aa_size = 0
  /\ aa_alignment = 1
  /\ aa_buf = NullBuf
  /\ aa_ret = NULL
  /\ aa_outcome = "none"
  /\ aa_alloc_calls = 0

\* a pointer that has not been set
NoPtr == [region |-> "none", len |-> 0]

SBIdle ==
  /\ sb_pc = "idle"
  /\ size_in_bytes = 0
  /\ on_heap = NullBuf
  /\ buffer_ptr = NoPtr

\* the estimator and the scratch buffer while another component runs
EstUnused == EstIdle /\ slot_size = 1 /\ num_elements = 0
SBUnused == SBIdle /\ platform = "gnuc"

NoCall == [op |-> "none"]

\* growth of next_buffer_size (implementation-defined; libstdc++ uses 1.5)
Grow(n) == (n * 3) \div 2

\* SmallBufferResource(ptr, size_in_bytes, upstream) just constructed
ArenaConstructed(ptr, size) ==
  /\ ar_pc = "live"
  /\ ar_base = ptr
  /\ ar_capacity = size
  /\ cur_ptr = ptr
  /\ avail = size
  /\ cur_is_local = TRUE
  /\ next_buffer_size = Grow(size)
  /\ chunks = <<>>
  /\ up_alloc_calls = 0
  /\ up_dealloc_calls = 0
  /\ live = {}
  /\ bytes_used = 0
  /\ ar_calls = 0
  /\ sum_requested = 0
  /\ sum_padded = 0
  /\ last = NoCall

ARIdle == ArenaConstructed(16, 1)

\* DebugMemoryResource(name, up) just constructed
DBGIdle ==
  /\ total_allocated_ = 0
  /\ total_deallocated_ = 0
  /\ dbg_up_calls = [allocate |-> 0, deallocate |-> 0]
  /\ dbg_live = {}
  /\ dbg_calls = 0
  /\ dbg_sum_alloc = 0
  /\ dbg_sum_dealloc = 0
  /\ dbg_prev = [allocated |-> 0, deallocated |-> 0]

\* ------------------------------------------------------------------------
\* size_t and bit operations
\* ------------------------------------------------------------------------

\* width of size_t in the model
WordBits == 7

RECURSIVE Pow2(_)
Pow2(k) == IF k = 0 THEN 1 ELSE 2 * Pow2(k - 1)

\* number of values of size_t
Modulus == Pow2(WordBits)

\* ~size_t{}
SizeMax == Modulus - 1

SizeT == 0..SizeMax

RECURSIVE BitAnd(_, _)
BitAnd(a, b) ==
  IF a = 0 \/ b = 0 THEN 0
  ELSE (a % 2) * (b % 2) + 2 * BitAnd(a \div 2, b \div 2)

\* ~x on size_t
BitNot(x) == SizeMax - x

RECURSIVE BitLength(_)
BitLength(x) == IF x = 0 THEN 0 ELSE 1 + BitLength(x \div 2)

\* absl::countl_zero on size_t
countl_zero(x) == WordBits - BitLength(x)

IsPowerOfTwo(x) == x > 0 /\ BitAnd(x, x - 1) = 0

\* ------------------------------------------------------------------------
\* allocate_and_align
\* ------------------------------------------------------------------------

\* largest alignment argument tried
MaxAlignment == 8

\* largest start address the allocator hands out
MaxRawAddr == 9

\* largest small size requested; sizes near the top of size_t are tried too
MaxAlignSize == 16

Alignments == 1..MaxAlignment
AlignSizes ==
  (0..MaxAlignSize) \cup {x \in (SizeMax - MaxAlignment)..SizeMax : x >= 0}
RawAddrs == 1..MaxRawAddr

\* IAllocator::CalcMemSizeForArrayWithAlignment(nmemb, size, alignment, out):
\* nmemb * size, then + (alignment - 1), each checked; FALSE on overflow.
CalcMemSizeForArrayWithAlignment(nmemb, size, alignment) ==
  IF nmemb * size > SizeMax THEN Thrown
  ELSE IF nmemb * size + (alignment - 1) > SizeMax THEN Thrown
  ELSE Returned(nmemb * size + (alignment - 1))

\* std::align(alignment, size, ptr, space): the set of values the call can
\* return.  For a power-of-two alignment: the first aligned address at or
\* after ptr if size bytes still fit in space, else nullptr.  Any other
\* alignment is undefined behaviour: any pointer into the buffer, or nullptr.
StdAlign(alignment, size, ptr, space) ==
  IF IsPowerOfTwo(alignment)
  THEN LET aligned == ((ptr + alignment - 1) \div alignment) * alignment
       IN  IF size > space \/ aligned - ptr > space - size
           THEN {NULL} ELSE {aligned}
  ELSE {NULL} \cup (ptr..(ptr + space))

AAInit ==
  /\ AAIdle
  /\ EstUnused
  /\ SBUnused
  /\ ARIdle
  /\ DBGIdle

\* allocate_and_align(allocator, size, alignment, buf) with an empty buf.
\* raw is what the allocator does with the request: NULL when it fails
\* (MakeUniquePtr throws), else the start address of the new buffer.
allocate_and_align(size, alignment, raw) ==
  LET calc == CalcMemSizeForArrayWithAlignment(size, 1, alignment)
      to_allocate == calc.val
  IN
  /\ aa_pc = "idle"
  /\ aa_pc' = "done"
  /\ aa_size' = size
  /\ aa_alignment' = alignment
  /\ \/ /\ ~calc.ok
        /\ aa_outcome' = "returned"
        /\ aa_ret' = NULL
        /\ UNCHANGED <<aa_buf, aa_alloc_calls>>
     \/ /\ calc.ok
        /\ raw = NULL
        /\ aa_alloc_calls' = aa_alloc_calls + 1
        /\ aa_outcome' = "threw"
        /\ UNCHANGED <<aa_buf, aa_ret>>
     \/ /\ calc.ok
        /\ raw # NULL
        /\ aa_alloc_calls' = aa_alloc_calls + 1
        /\ aa_buf' = [addr |-> raw, len |-> to_allocate]
        /\ aa_ret' \in StdAlign(alignment, to_allocate, raw, to_allocate)
        /\ aa_outcome' = "returned"
  /\ UNCHANGED <<est_vars, sb_vars, ar_vars, dbg_vars>>

AANext ==
  \E size \in AlignSizes, alignment \in Alignments,
     raw \in {NULL} \cup RawAddrs :
    allocate_and_align(size, alignment, raw)

SpecAlign == AAInit /\ [][AANext]_vars

AADone == aa_pc = "done"

\* C5: for a power-of-two alignment, a size computation that does not
\* overflow and a successful allocation at any start address, the returned
\* pointer is non-null, aligned, and [p, p + size) lies inside the raw buffer
\* of size + alignment - 1 bytes.
C5_AlignedInsideBuffer ==
  (/\ AADone
   /\ IsPowerOfTwo(aa_alignment)
   /\ aa_size + aa_alignment - 1 <= SizeMax
   /\ aa_buf # NullBuf) =>
    /\ aa_outcome = "returned"
    /\ aa_ret # NULL
    /\ aa_ret % aa_alignment = 0
    /\ aa_buf.len = aa_size + aa_alignment - 1
    /\ aa_buf.addr <= aa_ret
    /\ aa_ret + aa_size <= aa_buf.addr + aa_buf.len

\* C6: an alignment that is not a power of two is rejected before any
\* allocation: the allocator is never called, the caller's owner stays empty
\* and no pointer is returned.
C6_BadAlignmentRejectedFirst ==
  (AADone /\ ~IsPowerOfTwo(aa_alignment)) =>
    /\ aa_alloc_calls = 0
    /\ aa_buf = NullBuf
    /\ aa_ret = NULL

\* ------------------------------------------------------------------------
\* OrtDeclareAllignedStackOrAllocatedBuffer
\* ------------------------------------------------------------------------

Platforms == {"msvc", "gnuc", "other"}

\* constexpr size_t kOrtStackAllocationLimitBytes, per #if branch
kOrtStackAllocationLimitBytes(p) ==
  IF p \in {"msvc", "gnuc"} THEN 4 * 1024 ELSE 0

\* ORT_ALLOCA(s): _alloca / alloca, or nullptr where there is neither
ORT_ALLOCA(p, s) ==
  IF p \in {"msvc", "gnuc"} THEN [region |-> "stack", len |-> s]
  ELSE [region |-> "null", len |-> 0]

IsSizeOverStackAllocationLimit(p, size) ==
  size > kOrtStackAllocationLimitBytes(p)

\* how far around 0 and around the limit the requested sizes go
MaxDelta == 12

ScratchSizes(p) ==
  (0..MaxDelta) \cup
  {x \in (kOrtStackAllocationLimitBytes(p) - MaxDelta)
           ..(kOrtStackAllocationLimitBytes(p) + MaxDelta) : x >= 0}

SBInit ==
  /\ SBIdle
  /\ platform \in Platforms
  /\ EstUnused
  /\ AAIdle
  /\ ARIdle
  /\ DBGIdle

\* the limit itself is sent to the heap
OrtDeclare_LimitOnHeap(size, raw) ==
  /\ sb_pc = "idle"
  /\ IF size >= kOrtStackAllocationLimitBytes(platform)
     THEN IF raw = NULL
          THEN /\ sb_pc' = "threw"
               /\ UNCHANGED <<size_in_bytes, on_heap, buffer_ptr>>
          ELSE /\ sb_pc' = "declared"
               /\ size_in_bytes' = size
               /\ on_heap' = [addr |-> raw, len |-> size]
               /\ buffer_ptr' = [region |-> "heap", len |-> size]
     ELSE /\ sb_pc' = "declared"
          /\ size_in_bytes' = size
          /\ on_heap' = NullBuf
          /\ buffer_ptr' = ORT_ALLOCA(platform, size)
  /\ UNCHANGED <<platform, est_vars, aa_vars, ar_vars, dbg_vars>>

\* OrtDeclareAllignedStackOrAllocatedBuffer(buffer_ptr, size_in_bytes);
\* inline_containers_internal::allocate makes the heap buffer (at raw) and
\* stores it in the owner; raw = NULL: std::make_unique throws.
OrtDeclareAllignedStackOrAllocatedBuffer(size, raw) ==
  /\ sb_pc = "idle"
  /\ IF size > kOrtStackAllocationLimitBytes(platform)
     THEN IF raw = NULL
          THEN /\ sb_pc' = "threw"
               /\ UNCHANGED <<size_in_bytes, on_heap, buffer_ptr>>
          ELSE /\ sb_pc' = "declared"
               /\ size_in_bytes' = size
               /\ on_heap' = [addr |-> raw, len |-> size]
               /\ buffer_ptr' = [region |-> "heap", len |-> size]
     ELSE /\ sb_pc' = "declared"
          /\ size_in_bytes' = size
          /\ on_heap' = NullBuf
          /\ buffer_ptr' = ORT_ALLOCA(platform, size)
  /\ UNCHANGED <<platform, est_vars, aa_vars, ar_vars, dbg_vars>>

\* the declaring scope ends: the owner frees the heap buffer, the frame
\* region goes away with the frame
ScopeExit ==
  /\ sb_pc \in {"declared", "threw"}
  /\ sb_pc' = "idle"
  /\ size_in_bytes' = 0
  /\ on_heap' = NullBuf
  /\ buffer_ptr' = NoPtr
  /\ UNCHANGED <<platform, est_vars, aa_vars, ar_vars, dbg_vars>>

SBNext ==
  \/ \E size \in ScratchSizes(platform), raw \in {NULL} \cup RawAddrs :
       OrtDeclareAllignedStackOrAllocatedBuffer(size, raw)
  \/ ScopeExit

SpecScratch == SBInit /\ [][SBNext]_vars

MaxCapacity == 5

\* largest request size
MaxReqSize == 3

\* largest alignment requested from the arena
MaxArenaAlign == 4

\* allocate calls per arena
MaxArenaCalls == 3

\* the borrowed buffer starts at an aligned or at an odd address
ArenaBases == {16, 17}
\* its size in bytes
ArenaCapacities == {c \in {MaxCapacity - 1, MaxCapacity} : c > 0}
ReqSizes == 1..MaxReqSize
ArenaAlignments == {a \in 1..MaxArenaAlign : IsPowerOfTwo(a)}

\* first multiple of alignment at or after ptr
AlignUp(ptr, alignment) == ((ptr + alignment - 1) \div alignment) * alignment

\* forgets the alignment padding in front of the block
FitsCurrent_IgnoresPadding(bytes, alignment, ptr, space) ==
  bytes <= space

\* std::align(alignment, bytes, current_buffer, space) succeeds: the block
\* fits behind the padding that aligns it
FitsCurrent(bytes, alignment, ptr, space) ==
  /\ bytes <= space
  /\ AlignUp(ptr, alignment) - ptr <= space - bytes

\* where the upstream resource puts its k-th block (k from 0): blocks are
\* disjoint from each other and from the borrowed buffer, aligned for all
UpstreamAddr(k) == 64 * (k + 1)

ARInit ==
  /\ \E ptr \in ArenaBases, size \in ArenaCapacities :
       ArenaConstructed(ptr, size)
  /\ EstUnused
  /\ AAIdle
  /\ SBUnused
  /\ DBGIdle

\* what every arena call records about the state it started from
Before ==
  [used |-> bytes_used, cursor |-> <<cur_ptr, avail, cur_is_local>>,
   nchunks |-> Len(chunks), requested |-> sum_requested,
   padded |-> sum_padded, up_alloc |-> up_alloc_calls,
   up_dealloc |-> up_dealloc_calls]

\* resource()->allocate(bytes, alignment).  up_ok: whether upstream can
\* serve a block if it is asked for one.
do_allocate(bytes, alignment, up_ok) ==
  LET aligned == AlignUp(cur_ptr, alignment)
      pad == aligned - cur_ptr
      n == IF bytes > next_buffer_size THEN bytes ELSE next_buffer_size
      block == UpstreamAddr(Len(chunks))
  IN
  /\ ar_pc = "live"
  /\ ar_calls < MaxArenaCalls
  /\ ar_calls' = ar_calls + 1
  /\ sum_requested' = sum_requested + bytes
  /\ sum_padded' =
       sum_padded + (AlignUp(ar_base + sum_padded, alignment)
                       - (ar_base + sum_padded)) + bytes
  /\ IF FitsCurrent(bytes, alignment, cur_ptr, avail)
     THEN \* carved from current_buffer; upstream is not called
          /\ cur_ptr' = aligned + bytes
          /\ avail' = avail - pad - bytes
          /\ bytes_used' = IF cur_is_local THEN bytes_used + pad + bytes
                           ELSE bytes_used
          /\ live' = live \cup {[ptr |-> aligned, size |-> bytes,
                                 src |-> IF cur_is_local THEN "local"
                                         ELSE "upstream"]}
          /\ last' = [op |-> "allocate", outcome |-> "ok", bytes |-> bytes,
                      alignment |-> alignment, ptr |-> aligned,
                      src |-> IF cur_is_local THEN "local" ELSE "upstream",
                      before |-> Before]
          /\ UNCHANGED <<cur_is_local, next_buffer_size, chunks,
                         up_alloc_calls>>
     ELSE \* current_buffer = upstream->allocate(n, alignment)
          /\ up_alloc_calls' = up_alloc_calls + 1
          /\ IF up_ok
             THEN /\ chunks' = Append(chunks, [addr |-> block, size |-> n])
                  /\ cur_is_local' = FALSE
                  /\ next_buffer_size' = Grow(next_buffer_size)
                  /\ cur_ptr' = block + bytes
                  /\ avail' = n - bytes
                  /\ live' = live \cup {[ptr |-> block, size |-> bytes,
                                         src |-> "upstream"]}
                  /\ last' = [op |-> "allocate", outcome |-> "ok",
                              bytes |-> bytes, alignment |-> alignment,
                              ptr |-> block, src |-> "upstream",
                              before |-> Before]
             ELSE \* upstream throws; the resource is left as it was
                  /\ last' = [op |-> "allocate", outcome |-> "threw",
                              bytes |-> bytes, alignment |-> alignment,
                              ptr |-> NULL, src |-> "upstream",
                              before |-> Before]
                  /\ UNCHANGED <<chunks, cur_is_local, next_buffer_size,
                                 cur_ptr, avail, live>>
          /\ UNCHANGED bytes_used
  /\ UNCHANGED <<ar_pc, ar_base, ar_capacity, up_dealloc_calls>>
  /\ UNCHANGED <<est_vars, aa_vars, sb_vars, dbg_vars>>

\* hands blocks that came from upstream straight back to upstream
do_deallocate_Forwards(blk) ==
  /\ ar_pc = "live"
  /\ blk \in live
  /\ live' = live \ {blk}
  /\ up_dealloc_calls' = IF blk.src = "upstream" THEN up_dealloc_calls + 1
                         ELSE up_dealloc_calls
  /\ last' = [op |-> "deallocate", outcome |-> "ok", bytes |-> blk.size,
              alignment |-> 1, ptr |-> blk.ptr, src |-> blk.src,
              before |-> Before]
  /\ UNCHANGED <<ar_pc, ar_base, ar_capacity, cur_ptr, avail, cur_is_local,
                 next_buffer_size, chunks, up_alloc_calls, bytes_used,
                 ar_calls, sum_requested, sum_padded>>
  /\ UNCHANGED <<est_vars, aa_vars, sb_vars, dbg_vars>>

\* resource()->deallocate(p, bytes, alignment) for a block handed out
\* earlier: monotonic_buffer_resource::do_deallocate has no effect
do_deallocate(blk) ==
  /\ ar_pc = "live"
  /\ blk \in live
  /\ live' = live \ {blk}
  /\ last' = [op |-> "deallocate", outcome |-> "ok", bytes |-> blk.size,
              alignment |-> 1, ptr |-> blk.ptr, src |-> blk.src,
              before |-> Before]
  /\ UNCHANGED <<ar_pc, ar_base, ar_capacity, cur_ptr, avail, cur_is_local,
                 next_buffer_size, chunks, up_alloc_calls, up_dealloc_calls,
                 bytes_used, ar_calls, sum_requested, sum_padded>>
  /\ UNCHANGED <<est_vars, aa_vars, sb_vars, dbg_vars>>

\* ~SmallBufferResource: ~monotonic_buffer_resource calls release(), which
\* gives every block obtained from upstream back to upstream
Destroy ==
  /\ ar_pc = "live"
  /\ ar_pc' = "destroyed"
  /\ up_dealloc_calls' = up_dealloc_calls + Len(chunks)
  /\ chunks' = <<>>
  /\ live' = {}
  /\ cur_ptr' = ar_base
  /\ avail' = ar_capacity
  /\ cur_is_local' = TRUE
  /\ last' = [op |-> "destroy", before |-> Before]
  /\ UNCHANGED <<ar_base, ar_capacity, next_buffer_size, up_alloc_calls,
                 bytes_used, ar_calls, sum_requested, sum_padded>>
  /\ UNCHANGED <<est_vars, aa_vars, sb_vars, dbg_vars>>

ARNext ==
  \/ \E bytes \in ReqSizes, alignment \in ArenaAlignments, up_ok \in BOOLEAN :
       do_allocate(bytes, alignment, up_ok)
  \/ \E blk \in live : do_deallocate(blk)
  \/ Destroy

SpecArena == ARInit /\ [][ARNext]_vars

\* the block returned by the last allocate lies in one upstream block and
\* shares no byte with the borrowed buffer
LastBlockWhollyUpstream ==
  /\ \E i \in 1..Len(chunks) :
       /\ chunks[i].addr <= last.ptr
       /\ last.ptr + last.bytes <= chunks[i].addr + chunks[i].size
  /\ \/ last.ptr + last.bytes <= ar_base
     \/ ar_base + ar_capacity <= last.ptr

\* the last call was an allocate that asked upstream for a block
LastReachedUpstream ==
  /\ last.op = "allocate"
  /\ up_alloc_calls > last.before.up_alloc

LastLeftArenaAlone ==
  /\ bytes_used = last.before.used
  /\ <<cur_ptr, avail, cur_is_local>> = last.before.cursor
  /\ Len(chunks) = last.before.nchunks
  /\ up_alloc_calls = last.before.up_alloc

\* C9 as stated: deallocate of a block from the borrowed buffer changes
\* nothing and does not call upstream; deallocate of a block that came from
\* upstream is forwarded to upstream's deallocate by that call.
C9_UpstreamBlocksForwarded ==
  last.op = "deallocate" =>
    /\ last.src = "local" =>
         (LastLeftArenaAlone /\ up_dealloc_calls = last.before.up_dealloc)
    /\ last.src = "upstream" =>
         up_dealloc_calls = last.before.up_dealloc + 1

\* C9 amended: deallocate changes nothing and calls nothing, whichever
\* buffer the block came from; upstream's deallocate is called only when the
\* arena is destroyed, once for each block it obtained.
C9_DeallocateIsNoOp ==
  /\ last.op = "deallocate" =>
       (LastLeftArenaAlone /\ up_dealloc_calls = last.before.up_dealloc)
  /\ ar_pc = "live" => up_dealloc_calls = 0
  /\ last.op = "destroy" =>
       up_dealloc_calls = last.before.up_dealloc + last.before.nchunks

C9_Witness ==
  /\ last.op = "deallocate"
  /\ last.src = "upstream"
  /\ Len(chunks) > 0
  /\ \E blk \in live : blk.src = "local"

\* ------------------------------------------------------------------------
\* DebugMemoryResource
\* ------------------------------------------------------------------------

\* calls made on one DebugMemoryResource
MaxDebugCalls == 3

\* largest small byte count requested
MaxDebugBytes == 3

\* byte counts requested: small ones, half the range of size_t, all of it
DebugSizes == (0..MaxDebugBytes) \cup {Modulus \div 2, SizeMax}

DBGInit ==
  /\ DBGIdle
  /\ EstUnused
  /\ AAIdle
  /\ SBUnused
  /\ ARIdle

\* do_allocate(bytes, align): the counter is raised before upstream_ is
\* asked; up_ok tells whether upstream_->allocate returns or throws
Debug_do_allocate(bytes, align, up_ok) ==
  /\ dbg_calls < MaxDebugCalls
  /\ dbg_calls' = dbg_calls + 1
  /\ dbg_prev' = [allocated |-> total_allocated_,
                  deallocated |-> total_deallocated_]
  /\ total_allocated_' = (total_allocated_ + bytes) % Modulus
  /\ dbg_sum_alloc' = dbg_sum_alloc + bytes
  /\ dbg_up_calls' = [dbg_up_calls EXCEPT !.allocate = @ + 1]
  /\ dbg_live' = IF up_ok
                 THEN dbg_live \cup {[id |-> dbg_calls, bytes |-> bytes,
                                      align |-> align]}
                 ELSE dbg_live
  /\ UNCHANGED <<total_deallocated_, dbg_sum_dealloc>>
  /\ UNCHANGED <<est_vars, aa_vars, sb_vars, ar_vars>>

\* do_deallocate(ptr, bytes, align) for a block handed out earlier
Debug_do_deallocate(blk) ==
  /\ dbg_calls < MaxDebugCalls
  /\ blk \in dbg_live
  /\ dbg_calls' = dbg_calls + 1
  /\ dbg_prev' = [allocated |-> total_allocated_,
                  deallocated |-> total_deallocated_]
  /\ total_deallocated_' = (total_deallocated_ + blk.bytes) % Modulus
  /\ dbg_sum_dealloc' = dbg_sum_dealloc + blk.bytes
  /\ dbg_up_calls' = [dbg_up_calls EXCEPT !.deallocate = @ + 1]
  /\ dbg_live' = dbg_live \ {blk}
  /\ UNCHANGED <<total_allocated_, dbg_sum_alloc>>
  /\ UNCHANGED <<est_vars, aa_vars, sb_vars, ar_vars>>

DBGNext ==
  \/ \E bytes \in DebugSizes, align \in ArenaAlignments, up_ok \in BOOLEAN :
       Debug_do_allocate(bytes, align, up_ok)
  \/ \E blk \in dbg_live : Debug_do_deallocate(blk)

SpecDebug == DBGInit /\ [][DBGNext]_vars

\* Allocated() / Deallocated()
Allocated == total_allocated_
Deallocated == total_deallocated_

\* C10: Allocated() is the exact sum of the byte counts of all allocate
\* calls, Deallocated() that of all deallocate calls, whatever the
\* alignments and whether upstream served the request; neither decreases.
C10_CountersAreExactSums ==
  /\ Allocated = dbg_sum_alloc
  /\ Deallocated = dbg_sum_dealloc
  /\ Allocated >= dbg_prev.allocated
  /\ Deallocated >= dbg_prev.deallocated

\* ------------------------------------------------------------------------
\* EstimateHashStorageSize
\* ------------------------------------------------------------------------

num_cloned_bytes == 15

\* off-by-one shift: rounds down to 2^k - 1 instead of up
NElem_ShiftTooFar(n) ==
  IF n # 0 THEN SizeMax \div Pow2(countl_zero(n) + 1) ELSE 1

\* empty container sized like a 3-slot one
NElem_EmptyIsThree(n) ==
  IF n # 0 THEN SizeMax \div Pow2(countl_zero(n)) ELSE 3

\* nelem = num_elements ? ~size_t{} >> countl_zero(num_elements) : 1
NElem(n) ==
  IF n # 0 THEN SizeMax \div Pow2(countl_zero(n)) ELSE 1

\* plain size_t arithmetic instead of SafeInt<size_t>: wraps silently
EstimateHashStorageSize_Unchecked(s, n) ==
  LET nelem == NElem(n)
      num_control_bytes == (nelem + 1 + num_cloned_bytes) % Modulus
      mask == (BitNot(s) + 1) % Modulus
      slot_offset == BitAnd((num_control_bytes + s - 1) % Modulus, mask)
  IN  Returned((slot_offset + ((nelem * s) % Modulus)) % Modulus)

\* Every SafeInt operation throws when its exact result leaves size_t;
\* the operations are evaluated left to right.
EstimateHashStorageSize(s, n) ==
  LET nelem == NElem(n)
      num_control_bytes == nelem + 1 + num_cloned_bytes
      mask == (BitNot(s) + 1) % Modulus
      sum1 == num_control_bytes + s
      slot_offset == BitAnd(sum1 - 1, mask)
      prod == nelem * s
      total == slot_offset + prod
  IN  IF num_control_bytes > SizeMax THEN Thrown
      ELSE IF sum1 > SizeMax THEN Thrown
      ELSE IF prod > SizeMax THEN Thrown
      ELSE IF total > SizeMax THEN Thrown
      ELSE Returned(total)

EstInit ==
  /\ EstIdle
  /\ slot_size \in 1..SizeMax
  /\ num_elements \in SizeT
  /\ AAIdle
  /\ SBUnused
  /\ ARIdle
  /\ DBGIdle

\* a caller invokes EstimateHashStorageSize(slot_size, num_elements)
EstimateCall ==
  /\ est_pc = "idle"
  /\ est_pc' = "done"
  /\ est_result' = EstimateHashStorageSize(slot_size, num_elements)
  /\ UNCHANGED <<slot_size, num_elements, aa_vars, sb_vars, ar_vars, dbg_vars>>

EstNext == EstimateCall

SpecEstimate == EstInit /\ [][EstNext]_vars

\* ---- reference arithmetic on unbounded integers ----

\* smallest value of the form 2^k - 1 (k >= 1) that is >= n
RECURSIVE MaskCovering(_, _)
MaskCovering(n, c) == IF c >= n THEN c ELSE MaskCovering(n, 2 * c + 1)
Capacity(n) == MaskCovering(n, 1)

\* smallest multiple of s that is >= x
RoundUp(x, s) == ((x + s - 1) \div s) * s

\* the code's rounding, (x + s - 1) & -s, without a word width:
\* -s has exactly the bits of s - 1 cleared
MaskedOffset(x, s) == (x + s - 1) - BitAnd(x + s - 1, s - 1)

EstDone == est_pc = "done"

\* C1: whenever the call returns, the result is
\* RoundUp(capacity + 1 + 15, slot_size) + capacity * slot_size, i.e. the slot
\* array offset is a multiple of slot_size for every slot_size.
C1_EstimateUsesSlotMultiple ==
  (EstDone /\ est_result.ok) =>
    est_result.val =
      RoundUp(Capacity(num_elements) + 1 + num_cloned_bytes, slot_size)
        + Capacity(num_elements) * slot_size

\* C2: a returned estimate is never below num_elements * slot_size.
C2_NeverBelowRawSlots ==
  (EstDone /\ est_result.ok) => est_result.val >= num_elements * slot_size

C2_Witness ==
  /\ EstDone /\ est_result.ok
  /\ slot_size = 12 /\ num_elements = 5

\* C3: for a fixed slot_size, every returned estimate for a smaller element
\* count is <= the returned estimate for a larger one.
C3_Monotone ==
  (EstDone /\ est_result.ok) =>
    \A n1 \in 0..num_elements :
      EstimateHashStorageSize(slot_size, n1).ok =>
        EstimateHashStorageSize(slot_size, n1).val <= est_result.val

C3_Witness ==
  /\ EstDone /\ est_result.ok
  /\ slot_size = 3 /\ num_elements = 4
  /\ EstimateHashStorageSize(slot_size, 3).ok
  /\ EstimateHashStorageSize(slot_size, 3).val < est_result.val

\* C4: if any exact intermediate value (control bytes, slot offset, slot
\* bytes, their sum) exceeds size_t the call throws, and a returned value is
\* the value the same formula has on unbounded integers.
C4_OverflowFailsClosed ==
  EstDone =>
    LET cap == Capacity(num_elements)
        ctrl == cap + 1 + num_cloned_bytes
        off == MaskedOffset(ctrl, slot_size)
        prod == cap * slot_size
    IN  /\ (ctrl > SizeMax \/ off > SizeMax \/ prod > SizeMax
              \/ off + prod > SizeMax) => ~est_result.ok
        /\ est_result.ok => est_result.val = off + prod

C4_Witness ==
  /\ EstDone /\ ~est_result.ok
  /\ Capacity(num_elements) + 1 + num_cloned_bytes + slot_size <= SizeMax
  /\ Capacity(num_elements) * slot_size > SizeMax

====
